---- MODULE Spec2Model ----
(***************************************************************************)
(* tools/release_builder.py: the release pipeline of UniverseReleaseBuilder *)
(* (main -> __init__ -> release_zip and its five stages), as a sequential   *)
(* state machine.  Program state is the position in main/release_zip, the   *)
(* values the stages hand to one another, and the external systems the      *)
(* stages act on (destination S3 prefix, remote git branch, pull requests). *)
(* Outcomes of external commands are chosen by the environment.             *)
(* Three further specifications run one function on its own inputs: the     *)
(* revision scan (SpecRevision), the Metadata Rewriter (SpecRewriter) and   *)
(* the file comparison of the committer (SpecDiff).                         *)
(***************************************************************************)
EXTENDS Integers, Sequences, FiniteSets, TLC

\* ---------------------------------------------------------------- bounds
\* longest Artifact URL list the Metadata Rewriter hands to the mirror
MaxArtifacts == 2

\* ------------------------------------------------------------- text values
\* Command-line URLs are sequences of one-character strings.
SlashStub == <<"/", "s", "t", "u", "b", "-", "u", "n", "i", "v", "e", "r", "s", "e", "-">>
Zip == <<"z", "i", "p">>
Host == <<"h">>

\* argv[2] values the runs are started with
UrlGood      == Host \o SlashStub \o <<"k">> \o <<".">> \o Zip
UrlSlash     == UrlGood \o <<"/">>
UrlAnyChar   == Host \o SlashStub \o <<"k">> \o <<"x">> \o Zip
UrlNoStub    == Host \o <<"/", "k", ".">> \o Zip
UrlNoDir     == Tail(SlashStub) \o <<"k">> \o <<".">> \o Zip
UrlEmptyName == Host \o SlashStub \o <<".">> \o Zip
ArgUrls == {UrlGood, UrlSlash, UrlAnyChar, UrlNoStub, UrlNoDir, UrlEmptyName}

\* relative paths <rest> of the artifact URLs <original-prefix>/<rest>,
\* as sequences of path segments
ArtifactRests == {<<"a.json">>, <<"v1", "a.json">>, <<"b.tgz">>}

\* finite sequences over S of length at most n
SeqsUpTo(S, n) == UNION {[1..k -> S] : k \in 0..n}

\* ------------------------------------------------------- pure functions
\* str.rstrip('/') of main, line 354
RECURSIVE RStripSlash(_)
RStripSlash(u) ==
    IF Len(u) > 0 /\ u[Len(u)] = "/" THEN RStripSlash(SubSeq(u, 1, Len(u) - 1)) ELSE u

\* pat occurs in u at position p
HasAt(u, pat, p) ==
    /\ p >= 1
    /\ p + Len(pat) - 1 <= Len(u)
    /\ \A j \in 1..Len(pat) : u[p + j - 1] = pat[j]

\* positions p at which re.match('.+/stub-universe-(.+).zip$', u) can place the
\* literal '/stub-universe-': at least one character before it, and after it a
\* non-empty name, any one character, and 'zip' at the end of the string
StubPositions(u) ==
    {p \in 2..Len(u) :
        /\ HasAt(u, SlashStub, p)
        /\ Len(u) - (p + Len(SlashStub) - 1) >= 1 + 1 + Len(Zip)
        /\ HasAt(u, Zip, Len(u) - Len(Zip) + 1)}

\* name_match of __init__, line 39 (truthiness of the match object)
NameMatch(u) == StubPositions(u) # {}

\* name_match.group(1), line 43: the first '.+' is greedy, so the literal is
\* placed at its last possible position
PkgName(u) ==
    LET p == CHOOSE q \in StubPositions(u) : \A r \in StubPositions(u) : r <= q
    IN  SubSeq(u, p + Len(SlashStub), Len(u) - Len(Zip) - 1)

\* ------------------------------------------------ decisions of the code
\* __init__, lines 39-42 and 60-66: the three checks that raise
ConfigError(u, tok, kid, sec) ==
    \/ ~NameMatch(u)
    \/ ~tok
    \/ ~kid \/ ~sec

\* _run_cmd, lines 69-75: in a dry run the command is logged, not executed,
\* and the caller's dry_run_return is the result
RunCmdAlwaysExecutes(dry, status, dry_run_return) == status

RunCmd(dry, status, dry_run_return) ==
    IF dry THEN dry_run_return ELSE status

\* _copy_artifacts_s3, lines 166-171: what the listing result raises
\* ("" when the stage proceeds)
PreflightVerdictNoCollisionCheck(r) ==
    IF r > 256 THEN "PreflightFailure" ELSE ""

PreflightVerdict(r) ==
    IF r = 0 THEN "DestinationCollision"
    ELSE IF r > 256 THEN "PreflightFailure"
    ELSE ""

\* src_url.split('/')[-1], line 177
Basename(rest) == rest[Len(rest)]

\* 'if not ret == 0', line 204
UploadFailedIgnored(r) == FALSE

UploadFailed(r) == r # 0

\* the destination after one 'aws s3 cp' of line 202 that returned r, and the
\* raise of lines 204-207, which removes nothing
S3AfterCpWithCleanup(objects, key, r) ==
    IF r = 0 THEN objects \cup {key} ELSE {}

S3AfterCp(objects, key, r) ==
    IF r = 0 THEN objects \cup {key} ELSE objects

\* the last command of the chain built in lines 288-295
LastGitCmdAlwaysPush(dry) == "push"

LastGitCmd(dry) == IF dry THEN "show" ELSE "push"

\* main, lines 372-382: the value main returns for an HTTP response
MainReturnAlwaysZero(status) == 0

MainReturn(status) ==
    IF status < 200 \/ status >= 300 THEN -1 ELSE 0

\* release_zip, lines 329-333: the stages in call order
ReleaseZipMirrorAfterBranch == <<"fetch", "rewrite", "branch", "mirror", "pr">>

ReleaseZip == <<"fetch", "rewrite", "mirror", "branch", "pr">>

\* where control goes when stage s returns normally
StageAfter(s) ==
    LET k == CHOOSE j \in 1..Len(ReleaseZip) : ReleaseZip[j] = s
    IN  IF k < Len(ReleaseZip) THEN ReleaseZip[k + 1] ELSE "main_result"

\* ------------------------------------------------------- the environment
\* what can go wrong with the listing command of line 164
ListingFaults == {"none", "credentials", "connectivity", "killed"}

\* os.system's result (a wait status: exit code * 256, or the signal number
\* of a killed child) for 'aws s3 ls --recursive <dir>', lines 164-165 and 75:
\* exit 0 when objects are listed, exit 1 when none is found, exit 255 when
\* the service cannot be asked, signal 9 when the command is killed
LsWaitStatus(fault, objects) ==
    CASE fault = "none" -> IF objects # {} THEN 0 ELSE 256
      [] fault \in {"credentials", "connectivity"} -> 255 * 256
      [] OTHER -> 9

\* wait statuses of the other shell commands: success, or exit code 1
CmdStatuses == {0, 256}

\* HTTP statuses the pull-request request is answered with
PrStatuses == {201, 404, 422}

\* revision numbers the cloned repository may hold for the package, in the
\* pipeline runs and in the runs of the revision scan alone
MaxRevision == 1
MaxDirNumber == 5

\* an object left at the destination prefix by an earlier release
PriorKey == "prior"

NoCall == <<>>
Call(op, arg) == [op |-> op, arg |-> arg]

\* ----------------------------------------------------------------- state
VARIABLES
    pc,         \* position in main / release_zip
    argc,       \* len(argv)
    argUrl,     \* argv[2]
    dryRun,     \* self._dry_run (DRY_RUN set and non-empty)
    hasToken,   \* GITHUB_TOKEN in os.environ
    hasKeyId,   \* AWS_ACCESS_KEY_ID in os.environ
    hasSecret,  \* AWS_SECRET_ACCESS_KEY in os.environ
    destPrior,  \* the destination prefix held an object before the run
    urls,       \* original_artifact_urls
    i,          \* artifacts of urls already mirrored (loop index of line 174)
    ret,        \* result of the listing command: {} before it, {r} after
    lsFault,    \* what goes wrong with the listing command when it is run
    revisions,  \* entries of the package's directory in the cloned repository
    newRevision,\* number of the revision directory created: {} or {n}
    commitmsg,  \* commitmsg.txt has been written
    err,        \* the exception that was raised ("" for none)
    response,   \* what release_zip returned
    exitCode,   \* the process's exit: {} while running, {code} after
    s3,         \* object keys under the destination prefix
    pushed,     \* the release branch exists in the remote repository
    prs,        \* pull requests that exist in the remote repository
    calls,      \* external commands and requests issued, in order
    stages,     \* stages of release_zip entered, in order
    completed,  \* stages of release_zip that returned normally, in order
    reported,   \* messages written to the log or to stdout
    \* the Metadata Rewriter run on its own
    cfg,        \* HTTP_RELEASE_SERVER and MIN_DCOS_RELEASE_VERSION
    pkgJson,    \* package.json of the package directory
    resource,   \* text of the other file of the package directory
    orig,       \* both files as they were before the first pass
    foundUrls,  \* original_artifact_urls returned by the last pass
    written,    \* files the last pass wrote
    passes,     \* passes of the rewriter made so far
    \* the file comparison of the Revision Committer run on its own
    lastFiles,  \* files of the previous revision's directory
    pkgEntries, \* entries of the rewritten package directory
    report      \* addedfiles, removedfiles and filediffs after the loop

rewriter == <<cfg, pkgJson, resource, orig, foundUrls, written, passes>>
differ == <<lastFiles, pkgEntries, report>>

vars == <<pc, argc, argUrl, dryRun, hasToken, hasKeyId, hasSecret, destPrior,
          urls, i, ret, lsFault, revisions, newRevision, commitmsg, err, response,
          exitCode, s3, pushed, prs, calls, stages, completed, reported,
          rewriter, differ>>

inputs == <<argc, argUrl, dryRun, hasToken, hasKeyId, hasSecret, destPrior,
            lsFault>>
external == <<s3, pushed, prs>>

Unset == [kind |-> "unset", status |-> 0]
None == [kind |-> "None", status |-> 0]
HTTPResponse(st) == [kind |-> "HTTPResponse", status |-> st]

InitialS3 == IF destPrior THEN {PriorKey} ELSE {}

\* main, line 354
StubUniverseUrl == RStripSlash(argUrl)

\* the values the variables of the separate runs keep in the pipeline runs
NoDoc == [version |-> "", packagingVersion |-> "", minDcosReleaseVersion |-> "",
          canonical |-> FALSE]

RewriterIdle ==
    /\ cfg = [server |-> <<>>, min |-> ""]
    /\ pkgJson = NoDoc
    /\ resource = <<>>
    /\ orig = [pkgJson |-> NoDoc, resource |-> <<>>]
    /\ foundUrls = <<>>
    /\ written = {}
    /\ passes = 0

DifferIdle ==
    /\ lastFiles = <<>>
    /\ pkgEntries = <<>>
    /\ report = [added |-> <<>>, removed |-> <<>>, diffs |-> <<>>]

Init ==
    /\ pc = "main"
    /\ argc \in {2, 3}
    /\ argUrl \in ArgUrls
    /\ dryRun \in BOOLEAN
    /\ hasToken \in BOOLEAN
    /\ hasKeyId \in BOOLEAN
    /\ hasSecret \in BOOLEAN
    /\ destPrior \in BOOLEAN
    /\ urls = <<>>
    /\ i = 0
    /\ ret = {}
    /\ lsFault \in ListingFaults
    /\ revisions = {}
    /\ newRevision = {}
    /\ commitmsg = FALSE
    /\ err = ""
    /\ response = Unset
    /\ exitCode = {}
    /\ s3 = InitialS3
    /\ pushed = FALSE
    /\ prs = 0
    /\ calls = <<>>
    /\ stages = <<>>
    /\ completed = <<>>
    /\ reported = {}
    /\ RewriterIdle
    /\ DifferIdle

\* ------------------------------------------------------------ main, start
\* main, lines 348-350: too few arguments print the usage and return 1
MainUsage ==
    /\ pc = "main"
    /\ argc < 3
    /\ pc' = "exit"
    /\ exitCode' = {1}
    /\ reported' = reported \cup {"usage"}
    /\ UNCHANGED <<rewriter, differ, newRevision, inputs,
                   external, urls, i, ret, revisions, commitmsg,
                   err, response, calls, stages, completed>>

\* main, lines 351-366, and __init__, lines 38-66
Construct ==
    /\ pc = "main"
    /\ argc >= 3
    /\ IF ConfigError(StubUniverseUrl, hasToken, hasKeyId, hasSecret)
       THEN /\ pc' = "raised"
            /\ err' = "ConfigurationError"
       ELSE /\ pc' = ReleaseZip[1]
            /\ err' = err
    /\ reported' = reported \cup {"banner"}
    /\ UNCHANGED <<rewriter, differ, newRevision, inputs,
                   external, urls, i, ret, revisions, commitmsg,
                   response, exitCode, calls, stages, completed>>

\* an exception nobody catches (release_zip and main have no try): the
\* interpreter prints the traceback and the process exits with status 1
Uncaught ==
    /\ pc = "raised"
    /\ pc' = "exit"
    /\ exitCode' = {1}
    /\ reported' = reported \cup {"traceback"}
    /\ UNCHANGED <<rewriter, differ, newRevision, inputs,
                   external, urls, i, ret, revisions, commitmsg,
                   err, response, calls, stages, completed>>

\* ----------------------------------------------------- stage 1: fetch/unpack
\* _download_unpack_stub_universe, lines 77-103
Fetch ==
    /\ pc = "fetch"
    /\ stages' = Append(stages, "fetch")
    /\ calls' = Append(calls, Call("urlopen", NoCall))
    /\ \E outcome \in {"ok", "unreachable", "badfile", "nolayout"} :
          CASE outcome = "ok" ->
                 /\ pc' = StageAfter("fetch")
                 /\ err' = err
                 /\ completed' = Append(completed, "fetch")
            [] outcome = "unreachable" ->
                 /\ pc' = "raised"
                 /\ err' = "FetchError"
                 /\ completed' = completed
            [] outcome = "badfile" ->
                 /\ pc' = "raised"
                 /\ err' = "CorruptArchive"
                 /\ completed' = completed
            [] OTHER ->
                 /\ pc' = "raised"
                 /\ err' = "UnexpectedLayout"
                 /\ completed' = completed
    /\ UNCHANGED <<rewriter, differ, newRevision, inputs,
                   external, urls, i, ret, revisions, commitmsg,
                   response, exitCode, reported>>

\* ------------------------------------------------ stage 2: metadata rewrite
\* _update_package_get_artifact_source_urls, lines 122-157: the package files
\* are rewritten in place and the artifact URLs found in them are returned;
\* a package.json that cannot be read or parsed raises
Rewrite ==
    /\ pc = "rewrite"
    /\ stages' = Append(stages, "rewrite")
    /\ \/ /\ \E found \in SeqsUpTo(ArtifactRests, MaxArtifacts) : urls' = found
          /\ pc' = StageAfter("rewrite")
          /\ err' = err
          /\ completed' = Append(completed, "rewrite")
       \/ /\ urls' = urls
          /\ pc' = "raised"
          /\ err' = "RewriteError"
          /\ completed' = completed
    /\ UNCHANGED <<rewriter, differ, newRevision, inputs,
                   external, i, ret, revisions, commitmsg,
                   response, exitCode, calls, reported>>

\* ------------------------------------------------- stage 3: artifact mirror
\* _copy_artifacts_s3, lines 160-172: the destination listing and its verdict
MirrorPreflight ==
    /\ pc = "mirror"
    /\ stages' = Append(stages, "mirror")
    /\ calls' = IF dryRun THEN calls ELSE Append(calls, Call("s3-ls", NoCall))
    /\ LET r == RunCmd(dryRun, LsWaitStatus(lsFault, s3), 1)
           verdict == PreflightVerdict(r)
       IN  /\ ret' = {r}
           /\ IF verdict # ""
              THEN /\ pc' = "raised"
                   /\ err' = verdict
                   /\ completed' = completed
                   /\ reported' = reported
              ELSE /\ err' = err
                   /\ reported' = reported \cup {"proceeding"}
                   /\ IF Len(urls) > 0
                      THEN /\ pc' = "mirror_loop"
                           /\ completed' = completed
                      ELSE /\ pc' = StageAfter("mirror")
                           /\ completed' = Append(completed, "mirror")
    /\ UNCHANGED <<rewriter, differ, newRevision, inputs,
                   external, urls, i, revisions, commitmsg, response,
                   exitCode>>

\* where the loop of line 174 goes after n of the artifacts are done
AfterArtifact(n) ==
    IF n < Len(urls) THEN "mirror_loop" ELSE StageAfter("mirror")

\* one iteration of the loop of lines 174-208 in a dry run: a stub file is
\* written and 'aws s3 cp --dryrun' is run
MirrorDryRun ==
    /\ pc = "mirror_loop"
    /\ dryRun
    /\ i < Len(urls)
    /\ calls' = Append(calls, Call("s3-cp-dryrun", urls[i + 1]))
    /\ \E r \in CmdStatuses :
          IF UploadFailed(r)
          THEN /\ pc' = "raised"
               /\ err' = "PartialUploadFailure"
               /\ i' = i
               /\ completed' = completed
          ELSE /\ pc' = AfterArtifact(i + 1)
               /\ err' = err
               /\ i' = i + 1
               /\ completed' = IF i + 1 < Len(urls) THEN completed
                               ELSE Append(completed, "mirror")
    /\ UNCHANGED <<rewriter, differ, newRevision, inputs,
                   external, urls, ret, revisions, commitmsg, response,
                   exitCode, stages, reported>>

\* one iteration in a real run whose download raises (URLopener.retrieve,
\* line 199, is not inside any try)
MirrorDownloadFails ==
    /\ pc = "mirror_loop"
    /\ ~dryRun
    /\ i < Len(urls)
    /\ calls' = Append(calls, Call("retrieve", urls[i + 1]))
    /\ pc' = "raised"
    /\ err' = "DownloadError"
    /\ UNCHANGED <<rewriter, differ, newRevision, inputs,
                   external, urls, i, ret, revisions, commitmsg, response,
                   exitCode, stages, completed, reported>>

\* one iteration in a real run whose download succeeds: 'aws s3 cp' of line
\* 202 and the check of its result
MirrorUpload ==
    /\ pc = "mirror_loop"
    /\ ~dryRun
    /\ i < Len(urls)
    /\ calls' = calls \o <<Call("retrieve", urls[i + 1]), Call("s3-cp", urls[i + 1])>>
    /\ \E r \in CmdStatuses :
          /\ s3' = S3AfterCp(s3, Basename(urls[i + 1]), r)
          /\ IF UploadFailed(r)
             THEN /\ pc' = "raised"
                  /\ err' = "PartialUploadFailure"
                  /\ i' = i
                  /\ completed' = completed
             ELSE /\ pc' = AfterArtifact(i + 1)
                  /\ err' = err
                  /\ i' = i + 1
                  /\ completed' = IF i + 1 < Len(urls) THEN completed
                                  ELSE Append(completed, "mirror")
    /\ UNCHANGED <<rewriter, differ, newRevision, inputs,
                   pushed, prs, urls, ret, revisions, commitmsg, response,
                   exitCode, stages, reported>>

\* --------------------------------------------- stage 4: revision committer
\* numbers a directory name of the repository may read as
DirNumbers == (-1)..(MaxDirNumber + 1)

\* int(filename), line 239: the number the name reads as, nothing when int()
\* raises (names here are str() of a number, or not numeric at all)
ParseInt(name) == {n \in DirNumbers : ToString(n) = name}

Dir(name) == [name |-> name, isdir |-> TRUE]
File(name) == [name |-> name, isdir |-> FALSE]

\* what os.listdir(repo_pkg_base), line 235, may hold in the pipeline runs:
\* revision directories, a directory named -1, and a plain file that bears
\* the next number
RepoEntries ==
    {Dir(ToString(n)) : n \in (-1)..MaxRevision} \cup {File(ToString(MaxRevision + 1))}

\* lines 234-243: the largest number among the directories whose name
\* int() accepts, starting from -1
LastNumCountsFiles(listing) ==
    LET nums == {-1} \cup UNION {ParseInt(e.name) : e \in listing}
    IN  CHOOSE n \in nums : \A m \in nums : m <= n

LastNum(listing) ==
    LET nums == {-1} \cup UNION {ParseInt(e.name) : e \in {d \in listing : d.isdir}}
    IN  CHOOSE n \in nums : \A m \in nums : m <= n

\* lines 244-245: str(lastnum) and str(lastnum + 1)
LastRepoPkg(listing) == ToString(LastNum(listing))
ThisRepoPkg(listing) == ToString(LastNum(listing) + 1)

\* os.makedirs(this_repo_pkg), line 247, raises when the path exists
MakedirsRaises(listing) ==
    \E e \in listing : e.name = ThisRepoPkg(listing)

\* os.listdir(last_repo_pkg), line 248, raises unless the path is a directory
ListdirRaises(listing) ==
    ~\E e \in listing : e.isdir /\ e.name = LastRepoPkg(listing)

\* ' && '.join(...), lines 215 and 296: a command of the chain runs only if
\* the one before it exited 0
ChainContinuesAnyway(r) == TRUE

ChainContinues(r) == r = 0

\* 'if not ret == 0', lines 222 and 297
GitFailed(r) == r # 0

\* lines 233-248: the scan of the package's directory, the creation of the
\* next revision directory and the listing of the previous one; what is
\* raised ("" for nothing) and the number of the directory created
ScanOutcome(listing) ==
    IF MakedirsRaises(listing)
    THEN [err |-> "MakedirsError", created |-> {}]
    ELSE IF ListdirRaises(listing)
    THEN [err |-> "ListdirError", created |-> {LastNum(listing) + 1}]
    ELSE [err |-> "", created |-> {LastNum(listing) + 1}]

\* _create_universe_branch, lines 211-286: clone and checkout, then the local
\* work up to the commit message (line 235 raises as line 248 does when the
\* package has no directory in the repository at all)
BranchClone ==
    /\ pc = "branch"
    /\ stages' = Append(stages, "branch")
    /\ \E rclone \in CmdStatuses, rbranch \in CmdStatuses :
          LET r == IF ChainContinues(rclone) THEN rbranch ELSE rclone
          IN  /\ calls' = calls \o <<Call("git-clone", <<rclone>>)>> \o
                            (IF ChainContinues(rclone)
                             THEN <<Call("git-checkout", <<rbranch>>)>> ELSE <<>>)
              /\ IF GitFailed(r)
                 THEN /\ pc' = "raised"
                      /\ err' = "GitOperationFailure"
                      /\ UNCHANGED <<revisions, newRevision, commitmsg>>
                 ELSE \E listing \in SUBSET RepoEntries :
                        /\ revisions' = listing
                        /\ newRevision' = ScanOutcome(listing).created
                        /\ IF ScanOutcome(listing).err # ""
                           THEN /\ pc' = "raised"
                                /\ err' = ScanOutcome(listing).err
                                /\ commitmsg' = commitmsg
                           ELSE /\ pc' = "branch_commit"
                                /\ err' = err
                                /\ commitmsg' = TRUE
    /\ UNCHANGED <<rewriter, differ, inputs, external, urls, i, ret, response, exitCode, completed,
                   reported>>

\* lines 288-301: 'git add . && git commit && <last command>' and the check
\* of the chain's result
BranchCommit ==
    /\ pc = "branch_commit"
    /\ \E rcommit \in CmdStatuses, rlast \in CmdStatuses :
          LET r == IF ChainContinues(rcommit) THEN rlast ELSE rcommit
          IN  /\ calls' = calls \o <<Call("git-commit", <<rcommit>>)>> \o
                            (IF ChainContinues(rcommit)
                             THEN <<Call("git-" \o LastGitCmd(dryRun), <<rlast>>)>>
                             ELSE <<>>)
              /\ pushed' = (pushed \/ (/\ ChainContinues(rcommit)
                                       /\ rlast = 0
                                       /\ LastGitCmd(dryRun) = "push"))
              /\ IF GitFailed(r)
                 THEN /\ pc' = "raised"
                      /\ err' = "GitOperationFailure"
                      /\ completed' = completed
                 ELSE /\ pc' = StageAfter("branch")
                      /\ err' = err
                      /\ completed' = Append(completed, "branch")
    /\ UNCHANGED <<rewriter, differ, newRevision, inputs,
                   s3, prs, urls, i, ret, revisions, commitmsg, response,
                   exitCode, stages, reported>>

\* ------------------------------------------------ stage 5: change proposal
\* _create_universe_pr, lines 304-307: the dry run returns None
ProposeDryRun ==
    /\ pc = "pr"
    /\ dryRun
    /\ stages' = Append(stages, "pr")
    /\ completed' = Append(completed, "pr")
    /\ response' = None
    /\ reported' = reported \cup {"skipping-pr"}
    /\ pc' = StageAfter("pr")
    /\ UNCHANGED <<rewriter, differ, newRevision, inputs,
                   external, urls, i, ret, revisions, commitmsg, err,
                   exitCode, calls>>

\* _create_universe_pr, lines 308-324: one POST; the response is returned
\* whatever its status, a connection failure raises
Propose ==
    /\ pc = "pr"
    /\ ~dryRun
    /\ stages' = Append(stages, "pr")
    /\ calls' = Append(calls, Call("pr-request", NoCall))
    /\ \/ /\ pc' = "raised"
          /\ err' = "RequestError"
          /\ UNCHANGED <<response, prs, completed>>
       \/ \E st \in PrStatuses :
             /\ response' = HTTPResponse(st)
             /\ prs' = IF st >= 200 /\ st < 300 THEN prs + 1 ELSE prs
             /\ completed' = Append(completed, "pr")
             /\ pc' = StageAfter("pr")
             /\ err' = err
    /\ UNCHANGED <<rewriter, differ, newRevision, inputs,
                   s3, pushed, urls, i, ret, revisions, commitmsg,
                   exitCode, reported>>

\* ------------------------------------------------------------- main, end
\* main, lines 367-382
MainResult ==
    /\ pc = "main_result"
    /\ pc' = "exit"
    /\ IF response.kind = "None"
       THEN /\ exitCode' = {0}
            /\ reported' = reported \cup {"dry-run-placeholder"}
       ELSE /\ exitCode' = {MainReturn(response.status)}
            /\ reported' = reported \cup
                  (IF response.status < 200 \/ response.status >= 300
                   THEN {"response-status", "response-body", "create-pr-manually"}
                   ELSE {"created-pr", "pr-url"})
    /\ UNCHANGED <<rewriter, differ, newRevision, inputs,
                   external, urls, i, ret, revisions, commitmsg, err,
                   response, calls, stages, completed>>

Next ==
    \/ MainUsage
    \/ Construct
    \/ Uncaught
    \/ Fetch
    \/ Rewrite
    \/ MirrorPreflight
    \/ MirrorDryRun
    \/ MirrorDownloadFails
    \/ MirrorUpload
    \/ BranchClone
    \/ BranchCommit
    \/ ProposeDryRun
    \/ Propose
    \/ MainResult

Spec == Init /\ [][Next]_vars

\* ================================================================ claims
\* positions in calls of the calls of one kind
CallsOf(op) == {k \in DOMAIN calls : calls[k].op = op}

GitOps == {"git-clone", "git-checkout", "git-commit", "git-push", "git-show"}
GitCalls == {k \in DOMAIN calls : calls[k].op \in GitOps}

\* the five stages in the order the specification gives them
StageOrder == <<"fetch", "rewrite", "mirror", "branch", "pr">>
IsPrefix(a, b) == Len(a) <= Len(b) /\ a = SubSeq(b, 1, Len(a))
Range(f) == {f[x] : x \in DOMAIN f}

Halted == pc \in {"raised", "exit"}

\* the shared external systems are as they were before the run
ExternalUntouched == s3 = InitialS3 /\ ~pushed /\ prs = 0

\* C1: in a real run, when the destination listing returns 0 (the prefix holds
\* an object) the mirror fails with DestinationCollision before any download or
\* upload: no transfer call is ever issued and neither git nor the pull
\* request stage runs.
C1_CollisionGuard ==
    (~dryRun /\ ret = {0}) =>
        /\ Halted
        /\ err = "DestinationCollision"
        /\ CallsOf("retrieve") = {}
        /\ CallsOf("s3-cp") = {}
        /\ GitCalls = {}
        /\ CallsOf("pr-request") = {}
        /\ stages = <<"fetch", "rewrite", "mirror">>
        /\ s3 = InitialS3

C1_Witness ==
    /\ ~dryRun
    /\ destPrior
    /\ ret = {0}
    /\ Len(urls) > 0
    /\ pc = "exit"

\* C2: the stages of release_zip are entered in the order fetch, rewrite,
\* mirror, branch, pr, each at most once; a stage is entered only when every
\* stage before it has returned normally, and no earlier stage is re-entered.
C2_StageOrder ==
    /\ IsPrefix(stages, StageOrder)
    /\ IsPrefix(completed, stages)
    /\ Len(stages) <= Len(completed) + 1

C2_Witness ==
    /\ stages = StageOrder
    /\ completed = StageOrder
    /\ ~dryRun
    /\ pc = "exit"

\* the mirror got past its pre-flight and then failed on some artifact
MirrorLoopFailed ==
    /\ Halted
    /\ err # ""
    /\ "proceeding" \in reported
    /\ stages = <<"fetch", "rewrite", "mirror">>

\* transfers were issued for the artifacts up to the failed one only
NoTransferAfterFailure ==
    /\ \A k \in DOMAIN calls :
          calls[k].op \in {"retrieve", "s3-cp", "s3-cp-dryrun"} =>
              \E n \in 1..(i + 1) : calls[k].arg = urls[n]
    /\ Cardinality(CallsOf("retrieve")) <= i + 1
    /\ Cardinality(CallsOf("s3-cp")) <= i + 1
    /\ Cardinality(CallsOf("s3-cp-dryrun")) <= i + 1

\* C3 (as claimed): the first download or upload that fails aborts the mirror
\* with PartialUploadFailure; nothing after the failed artifact is transferred,
\* nothing is retried, and no git or pull-request call follows.
C3_FailFastPartialUpload ==
    MirrorLoopFailed =>
        /\ err = "PartialUploadFailure"
        /\ NoTransferAfterFailure
        /\ GitCalls = {}
        /\ CallsOf("pr-request") = {}

\* C3, the part the code keeps: whatever the error, the mirror stops at the
\* first failed artifact and the pipeline halts.
C3_FailFast ==
    MirrorLoopFailed =>
        /\ err \in {"PartialUploadFailure", "DownloadError"}
        /\ NoTransferAfterFailure
        /\ GitCalls = {}
        /\ CallsOf("pr-request") = {}

\* C4: in a dry run no real upload, no push and no pull-request request is ever
\* performed and the external systems stay untouched; a dry run that completes
\* has gone through all five stages, has written the commit-message file, got
\* None from _create_universe_pr and exits 0.
C4_DryRunNoMutation ==
    dryRun =>
        /\ CallsOf("s3-cp") = {}
        /\ CallsOf("git-push") = {}
        /\ CallsOf("pr-request") = {}
        /\ ExternalUntouched
        /\ (pc = "exit" /\ argc >= 3 /\ err = "") =>
              /\ stages = StageOrder
              /\ completed = StageOrder
              /\ commitmsg
              /\ response = None
              /\ exitCode = {0}

C4_Witness ==
    /\ dryRun
    /\ pc = "exit"
    /\ err = ""
    /\ Len(urls) > 0
    /\ CallsOf("s3-cp-dryrun") # {}
    /\ CallsOf("git-show") # {}

\* C5 (as claimed): in a real run, a listing that fails for credentials or
\* connectivity makes the mirror fail with PreflightFailure (not
\* DestinationCollision) with no download or upload; and an upload is issued
\* only when the listing was performed and showed an empty destination.
C5_PreflightFailureDistinct ==
    (~dryRun /\ ret # {}) =>
        /\ lsFault \in {"credentials", "connectivity"} =>
              /\ err = "PreflightFailure"
              /\ CallsOf("retrieve") = {}
              /\ CallsOf("s3-cp") = {}
        /\ CallsOf("s3-cp") # {} => (lsFault = "none" /\ ~destPrior)

\* C5, the part the code keeps: a listing that exits with a code above 1 stops
\* the mirror with PreflightFailure before any transfer.
C5_ExitCodeAboveOne ==
    (~dryRun /\ \E r \in ret : r > 256) =>
        /\ Halted
        /\ err = "PreflightFailure"
        /\ CallsOf("retrieve") = {}
        /\ CallsOf("s3-cp") = {}

\* the file name of u (what follows its last '/') reads
\* 'stub-universe-<name>.zip' with a non-empty name
FollowsNamingPattern(u) ==
    \E p \in 1..Len(u) :
        /\ HasAt(u, SlashStub, p)
        /\ \A q \in (p + 1)..Len(u) : u[q] # "/"
        /\ Len(u) - (p + Len(SlashStub) - 1) >= 1 + 1 + Len(Zip)
        /\ HasAt(u, <<".">> \o Zip, Len(u) - Len(Zip))

\* the constructor has been called (main got its two arguments)
Constructed == argc >= 3 /\ pc # "main"

\* C6 (as claimed): construction fails with ConfigurationError when the URL
\* does not read 'stub-universe-<name>.zip', when GITHUB_TOKEN is absent or
\* when either AWS key is absent, before any external call and with the
\* external systems untouched.
C6_ConfigValidatedFirst ==
    (/\ Constructed
     /\ \/ ~FollowsNamingPattern(StubUniverseUrl)
        \/ ~hasToken
        \/ ~hasKeyId
        \/ ~hasSecret) =>
        /\ Halted
        /\ err = "ConfigurationError"
        /\ calls = <<>>
        /\ stages = <<>>
        /\ ExternalUntouched

\* C6, the part the code keeps: a missing credential, or a URL the regular
\* expression of line 39 rejects, fails the construction before any external
\* call.
C6_RejectedBeforeAnyCall ==
    (/\ Constructed
     /\ \/ StubUniverseUrl \in {UrlNoStub, UrlNoDir, UrlEmptyName}
        \/ ~hasToken
        \/ ~hasKeyId
        \/ ~hasSecret) =>
        /\ Halted
        /\ err = "ConfigurationError"
        /\ calls = <<>>
        /\ stages = <<>>
        /\ ExternalUntouched

C8_NoRollback ==
    [][/\ s3 \subseteq s3'
       /\ pushed => pushed'
       /\ prs' >= prs
       /\ (err' # "" /\ err = "") => (s3' = s3 /\ pushed' = pushed /\ prs' = prs)
       /\ (err # "" \/ pc = "main_result") =>
             (s3' = s3 /\ pushed' = pushed /\ prs' = prs /\ calls' = calls)]_vars

C8_Witness ==
    /\ ~dryRun
    /\ pc = "exit"
    /\ err = "PartialUploadFailure"
    /\ i >= 1
    /\ s3 # {}

\* C9 (as claimed): a dry run runs the destination pre-flight as a real run
\* does: against a non-empty destination it fails with DestinationCollision,
\* and when the listing cannot be performed it fails with PreflightFailure.
C9_DryRunPreflightAsReal ==
    (dryRun /\ ret # {}) =>
        /\ (lsFault = "none" /\ destPrior) => err = "DestinationCollision"
        /\ lsFault \in {"credentials", "connectivity"} => err = "PreflightFailure"

\* C9 (amended): a dry run does not execute the destination listing: _run_cmd
\* returns the fixed value 1, so the dry run never fails with
\* DestinationCollision or PreflightFailure whatever the destination holds and
\* always proceeds to the artifact loop, which then runs as in a real run but
\* with one simulated upload per artifact and no download or real upload.
C9_DryRunSkipsPreflight ==
    dryRun =>
        /\ CallsOf("s3-ls") = {}
        /\ err \notin {"DestinationCollision", "PreflightFailure"}
        /\ ret # {} =>
              /\ ret = {1}
              /\ "proceeding" \in reported
        /\ CallsOf("retrieve") = {}
        /\ CallsOf("s3-cp") = {}
        /\ Cardinality(CallsOf("s3-cp-dryrun")) =
              IF err = "PartialUploadFailure" THEN i + 1 ELSE i
        /\ \A k \in CallsOf("s3-cp-dryrun") : \E n \in 1..Len(urls) : calls[k].arg = urls[n]

C9_Witness ==
    /\ dryRun
    /\ destPrior
    /\ lsFault = "credentials"
    /\ ret = {1}
    /\ Len(urls) > 0
    /\ i = Len(urls)
    /\ pc = "exit"

\* C10: when the pull-request request is answered with a status outside 2xx,
\* main reports the response body and the instruction to create the request
\* by hand and exits with a non-zero status; the pushed branch and the
\* uploaded artifacts are still in place.
C10_ProposalFailureReported ==
    (/\ pc = "exit"
     /\ response.kind = "HTTPResponse"
     /\ ~(response.status \in 200..299)) =>
        /\ exitCode # {}
        /\ 0 \notin exitCode
        /\ {"response-body", "create-pr-manually"} \subseteq reported
        /\ pushed
        /\ \A n \in 1..Len(urls) : urls[n][Len(urls[n])] \in s3
        /\ InitialS3 \subseteq s3
        /\ prs = 0

C10_Witness ==
    /\ pc = "exit"
    /\ response = HTTPResponse(422)
    /\ Len(urls) > 0
    /\ exitCode = {-1}

\* the run ended with the proposal request answered outside 2xx
ProposalRejected ==
    /\ pc = "exit"
    /\ response.kind = "HTTPResponse"
    /\ ~(response.status \in 200..299)

\* the run ended in success: a completed dry run, or a 2xx answer
EndedInSuccess ==
    /\ pc = "exit"
    /\ err = ""
    /\ \/ response.kind = "None"
       \/ response.kind = "HTTPResponse" /\ response.status \in 200..299

\* C11 (as claimed): main exits 0 on success (a completed dry run included)
\* and also when the proposal request is answered outside 2xx; it exits
\* non-zero on a failure before the proposal stage; with fewer than two
\* arguments it prints the usage and exits 1 without running any stage.
C11_ExitCodesAsClaimed ==
    /\ EndedInSuccess => exitCode = {0}
    /\ ProposalRejected => exitCode = {0}
    /\ (pc = "exit" /\ err # "" /\ "pr" \notin Range(stages)) =>
          (exitCode # {} /\ 0 \notin exitCode)
    /\ (pc = "exit" /\ argc < 3) =>
          (exitCode = {1} /\ "usage" \in reported /\ stages = <<>> /\ calls = <<>>)

\* C11 (amended): main exits 0 on success (a completed dry run included); it
\* exits with the non-zero value -1 when the proposal request is answered
\* outside 2xx, and non-zero on a failure before the proposal stage; with
\* fewer than two arguments it prints the usage and exits 1 without running
\* any stage.
C11_ExitCodes ==
    /\ EndedInSuccess => exitCode = {0}
    /\ ProposalRejected => exitCode = {-1}
    /\ (pc = "exit" /\ err # "" /\ "pr" \notin Range(stages)) =>
          (exitCode # {} /\ 0 \notin exitCode)
    /\ (pc = "exit" /\ argc < 3) =>
          (exitCode = {1} /\ "usage" \in reported /\ stages = <<>> /\ calls = <<>>)

C11_Witness ==
    /\ ProposalRejected
    /\ response.status = 404
    /\ ~dryRun
    /\ pushed

\* clone and branch creation succeeded, so the package's directory was read
ClonedOk == \E k \in CallsOf("git-checkout") : calls[k].arg = <<0>>

\* no directory of the listing has a name that reads as a number >= 0
NoPriorRevisionDir ==
    ~\E e \in revisions : e.isdir /\ \E n \in ParseInt(e.name) : n >= 0

\* C12 (as claimed): when the package's directory in the clone has no
\* subdirectory whose name parses as a non-negative integer, the Revision
\* Committer fails, and no commit, push or change proposal follows.
C12_NoPriorRevisionFails ==
    (ClonedOk /\ NoPriorRevisionDir) =>
        /\ Halted
        /\ err \in {"ListdirError", "MakedirsError"}
        /\ CallsOf("git-commit") = {}
        /\ CallsOf("git-push") = {}
        /\ CallsOf("pr-request") = {}
        /\ ~commitmsg

\* C12, the part the code keeps: with no directory at all whose name int()
\* accepts, listing the directory named -1 raises and nothing is committed.
C12_NoNumericDirFails ==
    (ClonedOk /\ ~\E e \in revisions : e.isdir /\ ParseInt(e.name) # {}) =>
        /\ Halted
        /\ err = "ListdirError"
        /\ CallsOf("git-commit") = {}
        /\ CallsOf("git-push") = {}
        /\ CallsOf("pr-request") = {}
        /\ ~commitmsg

\* ============================================ the revision scan on its own
\* the variables the runs of one function alone never touch, and their values
quiet == <<inputs, external, urls, i, ret, commitmsg, response, exitCode, calls,
           stages, completed, reported>>

Quiet ==
    /\ argc = 3
    /\ argUrl = UrlGood
    /\ dryRun = FALSE
    /\ hasToken = TRUE
    /\ hasKeyId = TRUE
    /\ hasSecret = TRUE
    /\ destPrior = FALSE
    /\ lsFault = "none"
    /\ urls = <<>>
    /\ i = 0
    /\ ret = {}
    /\ commitmsg = FALSE
    /\ response = Unset
    /\ exitCode = {}
    /\ s3 = InitialS3
    /\ pushed = FALSE
    /\ prs = 0
    /\ calls = <<>>
    /\ stages = <<>>
    /\ completed = <<>>
    /\ reported = {}

\* what os.listdir of the package's directory may return at line 235:
\* directories named by integers, one named by no integer, and a plain file
\* named by an integer
ScanEntries ==
    {Dir(ToString(n)) : n \in (-1)..MaxDirNumber} \cup
    {Dir("x"), File(ToString(MaxDirNumber + 1))}

InitRevision ==
    /\ Quiet
    /\ pc = "scan"
    /\ revisions \in SUBSET ScanEntries
    /\ newRevision = {}
    /\ err = ""
    /\ RewriterIdle
    /\ DifferIdle

\* lines 233-248 applied to one listing
ScanRevisions ==
    /\ pc = "scan"
    /\ newRevision' = ScanOutcome(revisions).created
    /\ err' = ScanOutcome(revisions).err
    /\ pc' = IF ScanOutcome(revisions).err = "" THEN "scanned" ELSE "raised"
    /\ UNCHANGED <<quiet, rewriter, differ, revisions>>

NextRevision == ScanRevisions

SpecRevision == InitRevision /\ [][NextRevision]_vars

\* ---------------------------------------------------------------- C15
\* the numbers of the existing revisions: the directories named by a
\* non-negative integer
RevisionNumbers == {n \in 0..(MaxDirNumber + 1) : Dir(ToString(n)) \in revisions}

Greatest(S) == CHOOSE n \in S : \A m \in S : m <= n

Scanned == pc \in {"scanned", "raised"}

NameTaken(n) == \E e \in revisions : e.name = ToString(n)

\* C15 as stated: whenever the package has revisions, the committer creates
\* the directory numbered one more than the greatest of them, whatever else
\* the package's directory holds, and that number is no existing revision's
C15_NextRevisionAlwaysCreated ==
    (Scanned /\ RevisionNumbers # {}) =>
        /\ newRevision = {Greatest(RevisionNumbers) + 1}
        /\ \A n \in newRevision : n \notin RevisionNumbers

\* C15: whenever the package has revisions, the number chosen is one more
\* than the greatest of them, whatever else the directory holds, and it is
\* no existing revision's; the directory of that number is created unless
\* an entry of that name (a plain file) exists already, and then the
\* committer stops at os.makedirs and creates nothing
C15_RevisionNumbering ==
    (Scanned /\ RevisionNumbers # {}) =>
        LET next == Greatest(RevisionNumbers) + 1
        IN  /\ next \notin RevisionNumbers
            /\ newRevision \subseteq {next}
            /\ ~NameTaken(next) => (newRevision = {next} /\ err = "")
            /\ NameTaken(next) => (newRevision = {} /\ err = "MakedirsError")

\* revisions 0, 3 and 5 beside a directory and a file that do not count:
\* revision 6 is created
C15_Witness ==
    /\ pc = "scanned"
    /\ RevisionNumbers = {0, 3, 5}
    /\ Dir("x") \in revisions
    /\ Dir("-1") \in revisions
    /\ newRevision = {6}

\* ======================================= the Metadata Rewriter on its own
\* File texts are sequences of one-character strings, as the URLs are.
Quote == "\""
Newline == "\n"

\* passes of the rewriter over one package directory
MaxPasses == 2
\* pieces a file text is put together from
MaxPieces == 3

\* argv[1], and packagingVersion of line 125
PkgVersion == <<"1">>
PackagingVersion == <<"3", ".", "0">>

\* '/'.join(url.split('/')[:-1]), line 146: the URL up to its last '/'
OriginalArtifactPrefix(u) ==
    LET ps == {p \in 1..Len(u) : u[p] = "/"}
    IN  IF ps = {} THEN <<>>
        ELSE SubSeq(u, 1, (CHOOSE p \in ps : \A q \in ps : q <= p) - 1)

\* release_dir_path of lines 44-45 and _release_artifact_http_dir of lines 53-54
ReleaseDirPath(u) == PkgName(u) \o <<"/", "a", "s", "s", "e", "t", "s">>
ReleaseArtifactHttpDir(server, u) ==
    server \o <<"/">> \o ReleaseDirPath(u) \o <<"/">> \o PkgVersion

\* re.findall('(<prefix>/.+)"', s), line 153, from position p on: matches are
\* taken from left to right without overlap; '.' is any character but a
\* newline and '.+' is greedy, so a match runs to the last '"' of its line
RECURSIVE FindAllFrom(_, _, _)
FindAllFrom(prefix, s, p) ==
    IF p > Len(s) THEN <<>>
    ELSE LET start == p + Len(prefix) + 1
             ends == {q \in (start + 1)..Len(s) :
                        /\ s[q] = Quote
                        /\ \A j \in start..(q - 1) : s[j] # Newline}
         IN  IF HasAt(s, prefix \o <<"/">>, p) /\ ends # {}
             THEN LET q == CHOOSE e \in ends : \A f \in ends : f <= e
                  IN  <<SubSeq(s, p, q - 1)>> \o FindAllFrom(prefix, s, q + 1)
             ELSE FindAllFrom(prefix, s, p + 1)

FindAll(prefix, s) == FindAllFrom(prefix, s, 1)

\* s.replace(old, new), line 155, from position p on (old is not empty)
RECURSIVE ReplaceFrom(_, _, _, _)
ReplaceFrom(s, old, new, p) ==
    IF p > Len(s) THEN <<>>
    ELSE IF HasAt(s, old, p) THEN new \o ReplaceFrom(s, old, new, p + Len(old))
    ELSE <<s[p]>> \o ReplaceFrom(s, old, new, p + 1)

Replace(s, old, new) == ReplaceFrom(s, old, new, 1)

\* lines 126-129 and 136: '0' becomes None, and None is not written
MinDcosReleaseVersionSet(min) == min # <<"0">> /\ min # <<>>

\* Step A, lines 132-140: package.json as a document (an absent key is the
\* empty value) and whether its text is what json.dumps(indent=2,
\* sort_keys=True) with the trailing blanks stripped produces
StepA(doc, min) ==
    [version |-> PkgVersion,
     packagingVersion |-> PackagingVersion,
     minDcosReleaseVersion |->
        IF MinDcosReleaseVersionSet(min) THEN min ELSE doc.minDcosReleaseVersion,
     canonical |-> TRUE]

\* _update_file_content, lines 106-119: the file is written when the
\* content differs
FileWritten(orig_content, new_content) == orig_content # new_content

\* the inputs: the release server is the stub's own host or another one
Servers == {Host, <<"n">>}
MinVersions == {<<"0">>, <<"1", ".", "8">>}
Docs ==
    [version : {<<"0">>, PkgVersion},
     packagingVersion : {<<"2", ".", "0">>, PackagingVersion},
     minDcosReleaseVersion : {<<>>, <<"1", ".", "7">>},
     canonical : BOOLEAN]

\* file texts: quoted artifact URLs under the stub's directory, line breaks,
\* and the bare directory
Pieces ==
    {<<Quote>> \o Host \o <<"/", "a", Quote>>,
     <<Quote>> \o Host \o <<"/", "v", "/", "a", Quote>>,
     <<Newline>>,
     Host}

RECURSIVE Flatten(_)
Flatten(ss) == IF ss = <<>> THEN <<>> ELSE Head(ss) \o Flatten(Tail(ss))

Texts == {Flatten(ss) : ss \in SeqsUpTo(Pieces, MaxPieces)}

InitRewriter ==
    /\ Quiet
    /\ pc = "rewriter"
    /\ revisions = {}
    /\ newRevision = {}
    /\ err = ""
    /\ DifferIdle
    /\ cfg \in [server : Servers, min : MinVersions]
    /\ pkgJson \in Docs
    /\ resource \in Texts
    /\ orig = [pkgJson |-> pkgJson, resource |-> resource]
    /\ foundUrls = <<>>
    /\ written = {}
    /\ passes = 0

\* _update_package_get_artifact_source_urls, lines 122-157, over a package
\* directory of package.json, whose values hold no artifact URL, and one
\* other file
RewritePass ==
    /\ pc = "rewriter"
    /\ passes < MaxPasses
    /\ LET prefix == OriginalArtifactPrefix(UrlGood)
           new_json == StepA(pkgJson, cfg.min)
           new_content == Replace(resource, prefix,
                                  ReleaseArtifactHttpDir(cfg.server, UrlGood))
       IN  /\ pkgJson' = new_json
           /\ resource' = new_content
           /\ foundUrls' = FindAll(prefix, resource)
           /\ written' = (IF FileWritten(pkgJson, new_json)
                          THEN {"package.json"} ELSE {}) \cup
                         (IF FileWritten(resource, new_content)
                          THEN {"resource.json"} ELSE {})
    /\ passes' = passes + 1
    /\ UNCHANGED <<quiet, differ, pc, revisions, newRevision, err, cfg, orig>>

NextRewriter == RewritePass

SpecRewriter == InitRewriter /\ [][NextRewriter]_vars

\* ---------------------------------------------------------------- C13
\* the artifact URLs of a text: a run of characters that starts with the
\* prefix and '/', holds neither a quote nor a line break, and is followed
\* by a quote
QuotedUrls(prefix, s) ==
    {SubSeq(s, a, b) : <<a, b>> \in
        {ab \in (1..Len(s)) \X (1..Len(s)) :
            /\ HasAt(s, prefix \o <<"/">>, ab[1])
            /\ ab[2] >= ab[1] + Len(prefix) + 1
            /\ ab[2] < Len(s)
            /\ s[ab[2] + 1] = Quote
            /\ \A j \in ab[1]..ab[2] : s[j] \notin {Quote, Newline}}}

Occurrences(s, pat) == Cardinality({p \in 1..Len(s) : HasAt(s, pat, p)})

\* C13: after a pass of the rewriter the returned list holds exactly the
\* artifact URLs of the files, each once and without a quote or anything
\* after it, and every occurrence of the original prefix has been replaced
\* by the public release directory
C13_UrlSetExact ==
    passes = 1 =>
        /\ Range(foundUrls) = QuotedUrls(OriginalArtifactPrefix(UrlGood), orig.resource)
        /\ \A j, k \in DOMAIN foundUrls : foundUrls[j] = foundUrls[k] => j = k
        /\ Occurrences(resource, ReleaseArtifactHttpDir(cfg.server, UrlGood))
             = Occurrences(orig.resource, OriginalArtifactPrefix(UrlGood))

\* the list of one pass holds a URL twice when two lines of a file name it
C13_RepeatedUrlListedTwice ==
    (passes = 1 /\ orig.resource = Flatten(<<<<Quote>> \o Host \o <<"/", "a", Quote>>,
                                             <<Newline>>,
                                             <<Quote>> \o Host \o <<"/", "a", Quote>>>>))
        => foundUrls = <<Host \o <<"/", "a">>, Host \o <<"/", "a">>>>

\* ---------------------------------------------------------------- C14
\* C14: a second pass of the rewriter with the same inputs writes no file
C14_SecondPassWritesNothing ==
    passes >= 2 => written = {}

\* a second pass writes nothing when the public release directory does not
\* itself hold the original prefix
C14_SecondPassWritesNothingElsewhere ==
    (passes >= 2 /\ Occurrences(ReleaseArtifactHttpDir(cfg.server, UrlGood),
                                OriginalArtifactPrefix(UrlGood)) = 0)
        => written = {}

\* ---------------------------------------------------------------- C17
\* C17: after Step A the document has the target version and the fixed
\* packagingVersion; with '0' configured it has no minDcosReleaseVersion,
\* otherwise its minDcosReleaseVersion is the configured value, whatever
\* the document held before
C17_MinVersionSentinel ==
    passes >= 1 =>
        /\ pkgJson.version = PkgVersion
        /\ pkgJson.packagingVersion = PackagingVersion
        /\ cfg.min = <<"0">> => pkgJson.minDcosReleaseVersion = <<>>
        /\ cfg.min # <<"0">> => pkgJson.minDcosReleaseVersion = cfg.min

\* with '0' configured Step A leaves the field as the document had it
C17_SentinelKeepsField ==
    passes >= 1 =>
        /\ pkgJson.version = PkgVersion
        /\ pkgJson.packagingVersion = PackagingVersion
        /\ cfg.min = <<"0">> => pkgJson.minDcosReleaseVersion = orig.pkgJson.minDcosReleaseVersion
        /\ cfg.min # <<"0">> => pkgJson.minDcosReleaseVersion = cfg.min

\* ============================ the file comparison of the committer on its own
\* names and contents of the files of the two directories
FileNames == {"a.txt", "b.txt", "c.txt"}
Contents == {"x", "y"}

PlainFile(c) == [isfile |-> TRUE, content |-> c]
Subdirectory == [isfile |-> FALSE, content |-> ""]

\* orders in which os.listdir may return the names of S
Orderings(S) ==
    {f \in [1..Cardinality(S) -> S] : \A j, k \in 1..Cardinality(S) : f[j] = f[k] => j = k}

\* list.remove(x), line 257: the first x is taken out
RemoveFirst(list, x) ==
    LET k == CHOOSE j \in DOMAIN list : list[j] = x /\ \A m \in 1..(j - 1) : list[m] # x
    IN  SubSeq(list, 1, k - 1) \o SubSeq(list, k + 1, Len(list))

\* ''.join(difflib.unified_diff(old, new, ...)), lines 260-263: nothing for
\* equal contents, else the header and the lines that differ
UnifiedDiff(old, new) ==
    IF old = new THEN <<>> ELSE <<"---", "+++", "@@", "-" \o old, "+" \o new>>

\* filediffs[filename] = ..., line 260
RecordDiffUnlessEmpty(filediffs, filename, d) ==
    IF d = <<>> THEN filediffs ELSE (filename :> d) @@ filediffs

RecordDiff(filediffs, filename, d) == (filename :> d) @@ filediffs

\* the loop of lines 251-265 from the k-th name of the package directory on
RECURSIVE DiffLoop(_, _, _, _, _)
DiffLoop(last, entries, order, k, acc) ==
    IF k > Len(order) THEN acc
    ELSE LET filename == order[k]
         IN  IF ~entries[filename].isfile
             THEN DiffLoop(last, entries, order, k + 1, acc)
             ELSE IF \E j \in DOMAIN acc.removed : acc.removed[j] = filename
             THEN DiffLoop(last, entries, order, k + 1,
                           [acc EXCEPT !.removed = RemoveFirst(@, filename),
                                       !.diffs = RecordDiff(@, filename,
                                                   UnifiedDiff(last[filename],
                                                               entries[filename].content))])
             ELSE DiffLoop(last, entries, order, k + 1,
                           [acc EXCEPT !.added = Append(@, filename)])

\* the counts of lines 269-271
WithCounts(acc) ==
    [added |-> acc.added, removed |-> acc.removed, diffs |-> acc.diffs,
     nadded |-> Len(acc.added), nremoved |-> Len(acc.removed),
     nchanged |-> Cardinality(DOMAIN acc.diffs)]

InitDiff ==
    /\ Quiet
    /\ pc = "diff"
    /\ revisions = {}
    /\ newRevision = {}
    /\ err = ""
    /\ RewriterIdle
    /\ lastFiles \in UNION {[S -> Contents] : S \in SUBSET FileNames}
    /\ pkgEntries \in UNION {[S -> {PlainFile(c) : c \in Contents} \cup {Subdirectory}] :
                               S \in SUBSET FileNames}
    /\ report = [added |-> <<>>, removed |-> <<>>, diffs |-> <<>>]

\* lines 248-271 applied to the previous revision's files and the package
\* directory
DiffRevisions ==
    /\ pc = "diff"
    /\ \E removedfiles \in Orderings(DOMAIN lastFiles),
          order \in Orderings(DOMAIN pkgEntries) :
          report' = WithCounts(DiffLoop(lastFiles, pkgEntries, order, 1,
                                        [added |-> <<>>, removed |-> removedfiles,
                                         diffs |-> <<>>]))
    /\ pc' = "diffed"
    /\ UNCHANGED <<quiet, rewriter, revisions, newRevision, err, lastFiles, pkgEntries>>

NextDiff == DiffRevisions

SpecDiff == InitDiff /\ [][NextDiff]_vars

\* ---------------------------------------------------------------- C16
Old == DOMAIN lastFiles
New == {n \in DOMAIN pkgEntries : pkgEntries[n].isfile}

GitCommandFailed == \E k \in GitCalls : calls[k].arg # <<0>>

\* the k-th call was preceded by a call of the kind op that returned 0
SucceededBefore(op, k) == \E j \in CallsOf(op) : j < k /\ calls[j].arg = <<0>>

\* C18: once clone, branch creation, commit or push has returned non-zero
\* the committer has raised its git failure, whose message says that the
\* uploaded artifacts must be deleted by hand, and no pull request is ever
\* requested or created; a push is run only after clone, branch creation
\* and commit have all returned 0
C18_GitFailureHandling ==
    /\ GitCommandFailed =>
          /\ err = "GitOperationFailure"
          /\ CallsOf("pr-request") = {}
          /\ prs = 0
          /\ response = Unset
          /\ "pr" \notin Range(stages)
    /\ \A k \in CallsOf("git-push") :
          /\ SucceededBefore("git-clone", k)
          /\ SucceededBefore("git-checkout", k)
          /\ SucceededBefore("git-commit", k)

\* a real run whose artifacts were uploaded and whose push failed
C18_Witness ==
    /\ \E k \in CallsOf("git-push") : calls[k].arg # <<0>>
    /\ err = "GitOperationFailure"
    /\ s3 # {}
    /\ ~pushed
    /\ exitCode = {1}

\* ---------------------------------------------------------------- C19
\* the mirror of a real run has returned normally
MirrorCompleted == ~dryRun /\ "mirror" \in Range(completed)

\* C19: after the mirror has completed, every <rest> the rewritten package
\* refers to under the public release directory is the key of an object
\* under the release directory
C19_RewrittenUrlsUploaded ==
    MirrorCompleted =>
        \A n \in DOMAIN urls : \E key \in s3 : <<key>> = urls[n]

\* an artifact directly under the original prefix is uploaded under the
\* key the rewritten package refers to
C19_FlatUrlsUploaded ==
    MirrorCompleted =>
        \A n \in DOMAIN urls : Len(urls[n]) = 1 => urls[n][1] \in s3

\* ---------------------------------------------------------------- C20
\* C20: no two uploads of a run write the same key of the release directory
\* (the key of an upload is the last segment of its URL, lines 177-180)
C20_KeysWrittenOnce ==
    \A j, k \in CallsOf("s3-cp") :
        Basename(calls[j].arg) = Basename(calls[k].arg) => j = k

\* uploads of different artifacts directly under the original prefix never
\* write the same key
C20_DistinctFlatUrlsWrittenOnce ==
    \A j, k \in CallsOf("s3-cp") :
        (/\ Len(calls[j].arg) = 1
         /\ Len(calls[k].arg) = 1
         /\ calls[j].arg # calls[k].arg)
            => Basename(calls[j].arg) # Basename(calls[k].arg)

====
